---- MODULE Spec2Model ----
(***************************************************************************)
(* FixedString<N> (include/fixed_string.h): a fixed-capacity string whose   *)
(* N-byte buffer Data lives inside the object.  The model keeps two         *)
(* instances, "a" and "b", whose capacities are fixed at instantiation, and *)
(* applies the constructors, the assignment operators, the comparisons and  *)
(* the concatenations of the class to them.                                 *)
(*                                                                          *)
(*   Spec      one instance under every constructor and assignment          *)
(*   SpecCopy  the same with a second instance of the same capacity and     *)
(*             the copy constructor and copy assignment between the two     *)
(*   SpecOps   two constructed instances of any two capacities under the    *)
(*             comparison and concatenation operators                       *)
(*                                                                          *)
(* Data[i] is a function 0..N-1 -> Char, indexed as the C array is.  Memory *)
(* seen through a const char* and the bytes of a std::string or of a        *)
(* std::string_view are sequences (element k of the C object is s[k+1]).    *)
(***************************************************************************)
EXTENDS Integers, Sequences, FiniteSets, TLC

\* capacities 1..MaxCap (Spec, SpecOps), sources of up to MaxLen bytes (Spec)
MaxCap == 3
MaxLen == 3
\* the same for the two instances of SpecCopy
MaxCopyCap == 2
MaxCopyLen == 2
\* operands of up to MaxArg bytes for the comparisons and concatenations
MaxArg == 1

\* '\0'
NUL == 0

\* two byte values other than the terminator stand for the 255 there are
Letter == {1, 2}
Char == {NUL} \cup Letter
Inst == {"a", "b"}

VARIABLES Capacity, NDEBUG, Data, live, aborted, last

vars == <<Capacity, NDEBUG, Data, live, aborted, last>>

SeqsUpTo(S, n) == UNION {[1..k -> S] : k \in 0..n}

\* the values an N-byte array of char can hold (also: uninitialized storage)
Buffers(n) == [0..(n - 1) -> Char]

\* const char*: null, or a pointer to a null-terminated array
NullPtr == [null |-> TRUE, mem |-> <<>>]
PtrTo(mem) == [null |-> FALSE, mem |-> mem]
CStrings(n) == {NullPtr} \cup {PtrTo(Append(c, NUL)) : c \in SeqsUpTo(Letter, n)}
\* std::string and std::string_view: any bytes, '\0' included
Strings(n) == SeqsUpTo(Char, n)
Views(n) == SeqsUpTo(Char, n)

Min(x, y) == IF x < y THEN x ELSE y

\* array-to-pointer decay of Data: the N bytes seen through a const char*
Decay(buf) == [k \in 1..Cardinality(DOMAIN buf) |-> buf[k - 1]]

\* the byte a scan reads at position k; positions past the array are only
\* read when the array holds no terminator, which no live instance does
At(mem, k) == IF k <= Len(mem) THEN mem[k] ELSE NUL

RECURSIVE ScanNul(_, _)
ScanNul(mem, k) ==
    IF k > Len(mem) THEN Len(mem)
    ELSE IF mem[k] = NUL THEN k - 1
    ELSE ScanNul(mem, k + 1)

strlen(mem) == ScanNul(mem, 1)

RECURSIVE CmpFrom(_, _, _)
CmpFrom(p, q, k) ==
    IF At(p, k) # At(q, k) THEN At(p, k) - At(q, k)
    ELSE IF At(p, k) = NUL THEN 0
    ELSE CmpFrom(p, q, k + 1)

strcmp(p, q) == CmpFrom(p, q, 1)

\* std::string_view(const char*) and std::string(const char*)
ViewOfCStr(mem) == SubSeq(mem, 1, strlen(mem))
StringOfCStr(mem) == SubSeq(mem, 1, strlen(mem))
\* std::string::c_str()
c_str(s) == Append(s, NUL)
\* std::string::operator std::string_view(): data() and size()
ViewOfString(s) == SubSeq(c_str(s), 1, Len(s))
\* std::string(std::string_view)
StringOfView(sv) == SubSeq(sv, 1, Len(sv))


(***************************************************************************)
(* Assignment.  Each operator returns the buffer after the call, whether    *)
(* an assertion stopped the program (halted), the highest index of Data     *)
(* that was written (hi, -1 when nothing was) and whether the source        *)
(* pointer was read (deref).                                                *)
(***************************************************************************)

\* Variants of Assign with one slip each; the properties below tell the
\* code from every one of them.
\* no terminator written after the copied bytes
Assign_NoTerm(buf, n, sv, ndebug) ==
    IF ~ndebug /\ ~(n > 0 /\ Len(sv) < n)
    THEN [Data |-> buf, halted |-> TRUE, hi |-> -1, deref |-> FALSE]
    ELSE LET copyLen == Min(Len(sv), n - 1)
         IN  [Data |-> [k \in 0..(n - 1) |->
                           IF k < copyLen THEN sv[k + 1] ELSE buf[k]],
              halted |-> FALSE, hi |-> copyLen - 1, deref |-> copyLen > 0]

\* std::min(sv.size(), N): no room left for the terminator
Assign_NoRoom(buf, n, sv, ndebug) ==
    IF ~ndebug /\ ~(n > 0 /\ Len(sv) < n)
    THEN [Data |-> buf, halted |-> TRUE, hi |-> -1, deref |-> FALSE]
    ELSE LET copyLen == Min(Len(sv), n)
         IN  [Data |-> [k \in 0..(n - 1) |->
                           IF k < copyLen THEN sv[k + 1]
                           ELSE IF k = copyLen THEN NUL
                           ELSE buf[k]],
              halted |-> FALSE, hi |-> copyLen, deref |-> copyLen > 0]

\* the truncation assertion placed after the copy
Assign_LateAssert(buf, n, sv, ndebug) ==
    LET copyLen == Min(Len(sv), n - 1)
        data == [k \in 0..(n - 1) |->
                    IF k < copyLen THEN sv[k + 1]
                    ELSE IF k = copyLen THEN NUL
                    ELSE buf[k]]
    IN  IF ~ndebug /\ ~(n > 0 /\ Len(sv) < n)
        THEN [Data |-> data, halted |-> TRUE, hi |-> copyLen, deref |-> copyLen > 0]
        ELSE [Data |-> data, halted |-> FALSE, hi |-> copyLen, deref |-> copyLen > 0]

\* the bytes copied after the current content instead of over it
Assign_Append(buf, n, sv, ndebug) ==
    IF ~ndebug /\ ~(n > 0 /\ Len(sv) < n)
    THEN [Data |-> buf, halted |-> TRUE, hi |-> -1, deref |-> FALSE]
    ELSE LET at == Min(strlen(Decay(buf)), n - 1)
             copyLen == Min(Len(sv), n - 1 - at)
         IN  [Data |-> [k \in 0..(n - 1) |->
                           IF k < at THEN buf[k]
                           ELSE IF k < at + copyLen THEN sv[k - at + 1]
                           ELSE IF k = at + copyLen THEN NUL
                           ELSE buf[k]],
              halted |-> FALSE, hi |-> at + copyLen, deref |-> copyLen > 0]

\* void Assign(std::string_view sv); n > 0 holds for every instantiation of
\* the model, so the first assertion never fires
Assign(buf, n, sv, ndebug) ==
    IF ~ndebug /\ ~(n > 0 /\ Len(sv) < n)
    THEN [Data |-> buf, halted |-> TRUE, hi |-> -1, deref |-> FALSE]
    ELSE LET copyLen == Min(Len(sv), n - 1)
         IN  [Data |-> [k \in 0..(n - 1) |->
                           IF k < copyLen THEN sv[k + 1]
                           ELSE IF k = copyLen THEN NUL
                           ELSE buf[k]],
              halted |-> FALSE, hi |-> copyLen, deref |-> copyLen > 0]

\* a null pointer returns without writing Data[0]
AssignCStr_NullNoop(buf, n, str, ndebug) ==
    IF str.null
    THEN [Data |-> buf, halted |-> FALSE, hi |-> -1, deref |-> FALSE]
    ELSE [Assign(buf, n, ViewOfCStr(str.mem), ndebug) EXCEPT !.deref = TRUE]

\* no null guard: the pointer goes to std::string_view(str) as it is
AssignCStr_NoGuard(buf, n, str, ndebug) ==
    [Assign(buf, n, ViewOfCStr(str.mem), ndebug) EXCEPT !.deref = TRUE]

\* void Assign(const char* str)
AssignCStr(buf, n, str, ndebug) ==
    IF str.null
    THEN [Data |-> [buf EXCEPT ![0] = NUL], halted |-> FALSE, hi |-> 0,
          deref |-> FALSE]
    ELSE [Assign(buf, n, ViewOfCStr(str.mem), ndebug) EXCEPT !.deref = TRUE]

\* FixedString() { std::memset(Data, 0, N); }
Zeroed(n) == [k \in 0..(n - 1) |-> NUL]

(***************************************************************************)
(* Read accessors, comparisons and concatenations (all const).              *)
(***************************************************************************)

empty(buf) == buf[0] = NUL
length(buf) == strlen(Decay(buf))

\* std::string_view == std::string_view: same size, same bytes
ViewEq(x, y) == Len(x) = Len(y) /\ \A k \in 1..Len(x) : x[k] = y[k]

\* the two arrays compared byte by byte over the smaller capacity
EqFixed_WholeBuffer(buf, other) ==
    \A k \in (DOMAIN buf) \cap (DOMAIN other) : buf[k] = other[k]

\* bool operator==(const FixedString<M>& other) const
EqFixed(buf, other) == strcmp(Decay(buf), Decay(other)) = 0

\* a null pointer compared as the empty string
EqCStr_NullIsEmpty(buf, other) ==
    strcmp(Decay(buf), IF other.null THEN <<NUL>> ELSE other.mem) = 0

\* bool operator==(const char* other) const
EqCStr(buf, other) ==
    IF other.null THEN FALSE ELSE strcmp(Decay(buf), other.mem) = 0

\* bool operator==(std::string_view other) const
EqView(buf, other) == ViewEq(ViewOfCStr(Decay(buf)), other)

NeCStr(buf, other) == ~EqCStr(buf, other)
NeView(buf, other) == ~EqView(buf, other)
NeFixed(buf, other) == ~EqFixed(buf, other)

\* the literal "" that replaces a null operand
OrEmpty(str) == IF str.null THEN <<NUL>> ELSE str.mem

\* the view read as a null-terminated string, its size ignored
PlusFixedView_NoSize(lhs, rhs) == StringOfCStr(Decay(lhs)) \o StringOfCStr(c_str(rhs))

\* operator+(std::string_view lhs, const FixedString& rhs)
PlusViewFixed(lhs, rhs) == StringOfView(lhs) \o StringOfCStr(Decay(rhs))
\* operator+(const FixedString& lhs, std::string_view rhs)
PlusFixedView(lhs, rhs) == StringOfCStr(Decay(lhs)) \o StringOfView(rhs)
\* operator+(const FixedString& lhs, const char* rhs)
PlusFixedCStr(lhs, rhs) == StringOfCStr(Decay(lhs)) \o StringOfCStr(OrEmpty(rhs))
\* operator+(const char* lhs, const FixedString& rhs)
PlusCStrFixed(lhs, rhs) == StringOfCStr(OrEmpty(lhs)) \o StringOfCStr(Decay(rhs))
\* operator+(const FixedString& lhs, const FixedString<M>& rhs)
PlusFixedFixed(lhs, rhs) == StringOfCStr(Decay(lhs)) \o StringOfCStr(Decay(rhs))

(***************************************************************************)
(* The state machine.  Data[i] is the storage of instance i, live[i] tells  *)
(* whether an object lives there.  last records the member that ran last:   *)
(* its name, the instance it ran on, its source or other operand, and what  *)
(* it returned.                                                             *)
(***************************************************************************)

Idle == [op |-> "FixedString()", inst |-> "a", kind |-> "none", null |-> FALSE,
         bytes |-> <<>>, from |-> "a", hi |-> -1, deref |-> FALSE,
         eq |-> FALSE, out |-> <<>>]

Ran(op, i) == [Idle EXCEPT !.op = op, !.inst = i, !.from = i]

FromCStr(rec, str, r) ==
    [rec EXCEPT !.kind = "cstr", !.null = str.null, !.bytes = str.mem,
                !.hi = r.hi, !.deref = r.deref]
FromString(rec, s, r) ==
    [rec EXCEPT !.kind = "string", !.bytes = s, !.hi = r.hi, !.deref = r.deref]
FromView(rec, sv, r) ==
    [rec EXCEPT !.kind = "view", !.bytes = sv, !.hi = r.hi, !.deref = r.deref]
FromFixed(rec, j, r) ==
    [rec EXCEPT !.kind = "fixed", !.from = j, !.hi = r.hi]

\* both instances default-constructed, with the same capacity 1..maxCap
InitWith(maxCap) ==
    /\ Capacity \in {[i \in Inst |-> n] : n \in 1..maxCap}
    /\ NDEBUG \in BOOLEAN
    /\ Data = [i \in Inst |-> Zeroed(Capacity[i])]
    /\ live = [i \in Inst |-> TRUE]
    /\ aborted = FALSE
    /\ last = [Idle EXCEPT !.hi = Capacity["a"] - 1]

\* a constructor starts the lifetime of instance i unless an assertion stops it
Construct(i, r, rec) ==
    /\ ~aborted
    /\ ~live[i]
    /\ Data' = [Data EXCEPT ![i] = r.Data]
    /\ live' = [live EXCEPT ![i] = ~r.halted]
    /\ aborted' = r.halted
    /\ last' = rec
    /\ UNCHANGED <<Capacity, NDEBUG>>

\* an assignment operator runs on a live instance
Mutate(i, r, rec) ==
    /\ ~aborted
    /\ live[i]
    /\ Data' = [Data EXCEPT ![i] = r.Data]
    /\ aborted' = r.halted
    /\ last' = rec
    /\ UNCHANGED <<Capacity, NDEBUG, live>>

\* the lifetime of instance i ends (trivial destructor); the bytes of its
\* storage are indeterminate when the next object is constructed there
Destroy(i, junk) ==
    /\ ~aborted
    /\ live[i]
    /\ Data' = [Data EXCEPT ![i] = junk]
    /\ live' = [live EXCEPT ![i] = FALSE]
    /\ last' = Ran("~FixedString()", i)
    /\ UNCHANGED <<Capacity, NDEBUG, aborted>>

\* std::memset(Data, 0, N)
Written(n) == [Data |-> Zeroed(n), halted |-> FALSE, hi |-> n - 1, deref |-> FALSE]
\* the defaulted copy: all N bytes of the other buffer
Copied(buf, n) == [Data |-> buf, halted |-> FALSE, hi |-> n - 1, deref |-> FALSE]

DefaultCtor(i) ==
    LET r == Written(Capacity[i])
    IN  Construct(i, r, [Ran("FixedString()", i) EXCEPT !.hi = r.hi])

CopyCtor(i, j) ==
    /\ i # j
    /\ live[j]
    /\ Capacity[i] = Capacity[j]
    /\ LET r == Copied(Data[j], Capacity[i])
       IN  Construct(i, r, FromFixed(Ran("FixedString(const FixedString&)", i), j, r))

CopyAssign(i, j) ==
    /\ live[j]
    /\ Capacity[i] = Capacity[j]
    /\ LET r == Copied(Data[j], Capacity[i])
       IN  Mutate(i, r, FromFixed(Ran("operator=(const FixedString&)", i), j, r))

CtorCStr(i, str) ==
    LET r == AssignCStr(Data[i], Capacity[i], str, NDEBUG)
    IN  Construct(i, r, FromCStr(Ran("FixedString(const char*)", i), str, r))

CtorString(i, s) ==
    LET r == AssignCStr(Data[i], Capacity[i], PtrTo(c_str(s)), NDEBUG)
    IN  Construct(i, r, FromString(Ran("FixedString(const std::string&)", i), s, r))

CtorView(i, sv) ==
    LET r == Assign(Data[i], Capacity[i], sv, NDEBUG)
    IN  Construct(i, r, FromView(Ran("FixedString(std::string_view)", i), sv, r))

OpAssignCStr(i, str) ==
    LET r == AssignCStr(Data[i], Capacity[i], str, NDEBUG)
    IN  Mutate(i, r, FromCStr(Ran("operator=(const char*)", i), str, r))

\* the whole string handed over as a view, size() bytes of it
OpAssignString_WholeView(i, s) ==
    LET r == Assign(Data[i], Capacity[i], ViewOfString(s), NDEBUG)
    IN  Mutate(i, r, FromString(Ran("operator=(const std::string&)", i), s, r))

OpAssignString(i, s) ==
    LET r == AssignCStr(Data[i], Capacity[i], PtrTo(c_str(s)), NDEBUG)
    IN  Mutate(i, r, FromString(Ran("operator=(const std::string&)", i), s, r))

OpAssignView(i, sv) ==
    LET r == Assign(Data[i], Capacity[i], sv, NDEBUG)
    IN  Mutate(i, r, FromView(Ran("operator=(std::string_view)", i), sv, r))

\* the constructors and assignments of instance i from sources of up to n bytes
Mutators(i, n) ==
    \/ DefaultCtor(i)
    \/ \E junk \in Buffers(Capacity[i]) : Destroy(i, junk)
    \/ \E str \in CStrings(n) : CtorCStr(i, str)
    \/ \E s \in Strings(n) : CtorString(i, s)
    \/ \E sv \in Views(n) : CtorView(i, sv)
    \/ \E str \in CStrings(n) : OpAssignCStr(i, str)
    \/ \E s \in Strings(n) : OpAssignString(i, s)
    \/ \E sv \in Views(n) : OpAssignView(i, sv)

Init == InitWith(MaxCap)

Next == Mutators("a", MaxLen)

Spec == Init /\ [][Next]_vars

(***************************************************************************)
(* SpecCopy: instance "a" as in Spec, and copies between "a" and "b".       *)
(***************************************************************************)

InitCopy == InitWith(MaxCopyCap)

Copies ==
    \E i \in Inst, j \in Inst :
        \/ CopyCtor(i, j)
        \/ CopyAssign(i, j)

NextCopy ==
    \/ Mutators("a", MaxCopyLen)
    \/ Copies

SpecCopy == InitCopy /\ [][NextCopy]_vars

(***************************************************************************)
(* SpecOps: two instances of any two capacities, each constructed from a    *)
(* view on uninitialized storage, and one comparison or concatenation       *)
(* evaluated on them.  The operators are const: they leave Data alone and   *)
(* last.eq or last.out holds what they returned.                            *)
(***************************************************************************)

\* the buffers FixedString(std::string_view) leaves in an instance of capacity n
Constructed(n) ==
    {Assign(junk, n, sv, TRUE).Data : junk \in Buffers(n), sv \in Views(n)}

\* the operators hold no assertion, so one build mode stands for both
InitOps ==
    /\ Capacity \in [Inst -> 1..MaxCap]
    /\ NDEBUG = TRUE
    /\ Data \in {[i \in Inst |-> IF i = "a" THEN x ELSE y] :
                    x \in Constructed(Capacity["a"]), y \in Constructed(Capacity["b"])}
    /\ live = [i \in Inst |-> TRUE]
    /\ aborted = FALSE
    /\ last = Ran("FixedString(std::string_view)", "a")

\* an expression on live instance i is evaluated once the instances are built
Evaluate(i, rec) ==
    /\ ~aborted
    /\ live[i]
    /\ last.kind = "none"
    /\ last' = rec
    /\ UNCHANGED <<Capacity, NDEBUG, Data, live, aborted>>

Operand(rec, kind, null, bytes) ==
    [rec EXCEPT !.kind = kind, !.null = null, !.bytes = bytes]

OpEqFixed(i, j) ==
    /\ live[j]
    /\ Evaluate(i, [Ran("operator==(const FixedString<M>&)", i) EXCEPT
                       !.kind = "fixed", !.from = j,
                       !.eq = EqFixed(Data[i], Data[j])])

OpNeFixed(i, j) ==
    /\ live[j]
    /\ Evaluate(i, [Ran("operator!=(const FixedString<M>&)", i) EXCEPT
                       !.kind = "fixed", !.from = j,
                       !.eq = NeFixed(Data[i], Data[j])])

OpEqCStr(i, str) ==
    Evaluate(i, [Operand(Ran("operator==(const char*)", i), "cstr", str.null, str.mem)
                    EXCEPT !.eq = EqCStr(Data[i], str)])

OpNeCStr(i, str) ==
    Evaluate(i, [Operand(Ran("operator!=(const char*)", i), "cstr", str.null, str.mem)
                    EXCEPT !.eq = NeCStr(Data[i], str)])

OpEqView(i, sv) ==
    Evaluate(i, [Operand(Ran("operator==(std::string_view)", i), "view", FALSE, sv)
                    EXCEPT !.eq = EqView(Data[i], sv)])

OpNeView(i, sv) ==
    Evaluate(i, [Operand(Ran("operator!=(std::string_view)", i), "view", FALSE, sv)
                    EXCEPT !.eq = NeView(Data[i], sv)])

\* sv + fs; a std::string on the left converts to a view and takes this overload
OpPlusViewFixed(kind, lhs, i) ==
    Evaluate(i, [Operand(Ran("operator+(std::string_view, const FixedString&)", i),
                         kind, FALSE, lhs)
                    EXCEPT !.out = PlusViewFixed(IF kind = "string" THEN ViewOfString(lhs)
                                                 ELSE lhs, Data[i])])

\* fs + sv; a std::string on the right converts to a view and takes this overload
OpPlusFixedView(i, kind, rhs) ==
    Evaluate(i, [Operand(Ran("operator+(const FixedString&, std::string_view)", i),
                         kind, FALSE, rhs)
                    EXCEPT !.out = PlusFixedView(Data[i], IF kind = "string"
                                                 THEN ViewOfString(rhs) ELSE rhs)])

OpPlusFixedCStr(i, str) ==
    Evaluate(i, [Operand(Ran("operator+(const FixedString&, const char*)", i),
                         "cstr", str.null, str.mem)
                    EXCEPT !.out = PlusFixedCStr(Data[i], str)])

OpPlusCStrFixed(str, i) ==
    Evaluate(i, [Operand(Ran("operator+(const char*, const FixedString&)", i),
                         "cstr", str.null, str.mem)
                    EXCEPT !.out = PlusCStrFixed(str, Data[i])])

OpPlusFixedFixed(i, j) ==
    /\ live[j]
    /\ Evaluate(i, [Ran("operator+(const FixedString&, const FixedString<M>&)", i) EXCEPT
                       !.kind = "fixed", !.from = j,
                       !.out = PlusFixedFixed(Data[i], Data[j])])

\* the expressions with instance i as their fixed-capacity operand
Expressions(i) ==
    \/ \E j \in Inst : OpEqFixed(i, j)
    \/ \E j \in Inst : OpNeFixed(i, j)
    \/ \E str \in CStrings(MaxArg) : OpEqCStr(i, str)
    \/ \E str \in CStrings(MaxArg) : OpNeCStr(i, str)
    \/ \E sv \in Views(MaxArg) : OpEqView(i, sv)
    \/ \E sv \in Views(MaxArg) : OpNeView(i, sv)
    \/ \E kind \in {"view", "string"}, lhs \in Views(MaxArg) : OpPlusViewFixed(kind, lhs, i)
    \/ \E kind \in {"view", "string"}, rhs \in Views(MaxArg) : OpPlusFixedView(i, kind, rhs)
    \/ \E str \in CStrings(MaxArg) : OpPlusFixedCStr(i, str)
    \/ \E str \in CStrings(MaxArg) : OpPlusCStrFixed(str, i)
    \/ \E j \in Inst : OpPlusFixedFixed(i, j)

NextOps == Expressions("a")

SpecOps == InitOps /\ [][NextOps]_vars

(***************************************************************************)
(* Properties.  The vocabulary of the specification: the logical content    *)
(* of a buffer, and the content and length of the source of an assignment.  *)
(***************************************************************************)

HasNul(s) == \E k \in 1..Len(s) : s[k] = NUL

\* the bytes of s before its first '\0' (all of them when it holds none)
UpToNul(s) ==
    IF HasNul(s)
    THEN SubSeq(s, 1, (CHOOSE k \in 1..Len(s) :
                          s[k] = NUL /\ \A j \in 1..(k - 1) : s[j] # NUL) - 1)
    ELSE s

Content(buf) == UpToNul(Decay(buf))

Prefix(s, n) == SubSeq(s, 1, Min(Len(s), n))

SourceOps ==
    {"FixedString(const char*)", "FixedString(const std::string&)",
     "FixedString(std::string_view)", "operator=(const char*)",
     "operator=(const std::string&)", "operator=(std::string_view)"}

\* the last member run constructed or assigned an instance from a source
AssignedFrom == last.op \in SourceOps
Target == Data[last.inst]
TargetCap == Capacity[last.inst]

\* the content handed in: what a pointer points to up to its terminator
\* (nothing for a null pointer), all size() bytes of a string or of a view
InputOf(rec) ==
    IF rec.kind = "cstr" THEN (IF rec.null THEN <<>> ELSE UpToNul(rec.bytes))
    ELSE rec.bytes
Input == InputOf(last)

\* the same, with a string counted up to its first '\0' as a pointer is
TextOf(rec) == IF rec.kind = "string" THEN UpToNul(rec.bytes) ELSE InputOf(rec)

\* a byte other than '\0' lies after the terminator of the buffer
StaleBytes(buf) ==
    \E k \in DOMAIN buf : k > Len(Content(buf)) /\ buf[k] # NUL

\* C1: every live instance holds a '\0' at one of the indices 0..N-1 of its
\* buffer, so that its length is at most N-1, after any sequence of
\* constructions, assignments and same-capacity copies.
C1_Terminated ==
    \A i \in Inst :
        live[i] => /\ \E k \in 0..(Capacity[i] - 1) : Data[i][k] = NUL
                   /\ length(Data[i]) <= Capacity[i] - 1

\* a copy of an instance filled to its last usable byte
C1_Witness ==
    /\ last.op = "operator=(const FixedString&)"
    /\ last.inst = "b"
    /\ Capacity["b"] >= 2
    /\ live["b"]
    /\ length(Data["b"]) = Capacity["b"] - 1

\* C2 (as claimed): any input of length L < N is afterwards the content of
\* the instance, and length() == L.
C2_Original ==
    (AssignedFrom /\ Len(Input) < TargetCap) =>
        /\ ~aborted
        /\ length(Target) = Len(Input)
        /\ Content(Target) = Input

\* C2 (amended): any input of length L < N that holds no '\0' byte is
\* afterwards the content of the instance, byte for byte, and length() == L,
\* whatever the buffer held before.
C2_ExactWhenFits ==
    (AssignedFrom /\ Len(Input) < TargetCap /\ ~HasNul(Input)) =>
        /\ ~aborted
        /\ live[last.inst]
        /\ length(Target) = Len(Input)
        /\ Content(Target) = Input

\* a short view assigned over a buffer that still holds older bytes after
\* the new terminator
C2_Witness ==
    /\ last.op = "operator=(std::string_view)"
    /\ Len(Input) >= 1
    /\ Len(Input) < TargetCap
    /\ ~HasNul(Input)
    /\ StaleBytes(Target)

\* C3 (as claimed): in a release build an input of length L >= N is cut to
\* its first N-1 bytes, length() == N-1, and no index outside 0..N-1 is
\* written.
C3_Original ==
    (NDEBUG /\ AssignedFrom) =>
        /\ last.hi \in 0..(TargetCap - 1)
        /\ Len(Input) >= TargetCap =>
              /\ length(Target) = TargetCap - 1
              /\ Content(Target) = Prefix(Input, TargetCap - 1)

\* C3 (amended): in a release build no assignment writes an index outside
\* 0..N-1, and an input of length L >= N whose first N-1 bytes hold no '\0'
\* is cut to these N-1 bytes, with length() == N-1.
C3_TruncatesInBounds ==
    (NDEBUG /\ AssignedFrom) =>
        /\ last.hi \in 0..(TargetCap - 1)
        /\ (Len(Input) >= TargetCap /\ ~HasNul(Prefix(Input, TargetCap - 1))) =>
              /\ ~aborted
              /\ length(Target) = TargetCap - 1
              /\ Content(Target) = Prefix(Input, TargetCap - 1)

\* an input longer than the capacity, cut to N-1 bytes
C3_Witness ==
    /\ NDEBUG
    /\ AssignedFrom
    /\ TargetCap >= 2
    /\ Len(Input) > TargetCap
    /\ ~HasNul(Input)
    /\ length(Target) = TargetCap - 1

\* C4 (as claimed): in a debug build an assignment halts on the truncation
\* assertion exactly when its input has length L >= N, and the buffer at the
\* halt is the buffer before the assignment.
C4_Original ==
    /\ [](/\ (~NDEBUG /\ AssignedFrom) => (aborted <=> Len(Input) >= TargetCap)
          /\ aborted => (~NDEBUG /\ AssignedFrom))
    /\ [][aborted' => Data' = Data]_vars

\* C4 (amended): in a debug build an assignment halts on the truncation
\* assertion exactly when its input, an owned string being counted up to its
\* first '\0', has length L >= N; the buffer at the halt is the buffer
\* before the assignment.
C4_DebugHaltsUntouched ==
    /\ [](/\ (~NDEBUG /\ AssignedFrom) => (aborted <=> Len(TextOf(last)) >= TargetCap)
          /\ aborted => (~NDEBUG /\ AssignedFrom))
    /\ [][aborted' => Data' = Data]_vars

\* the halt of an assignment to an instance that holds a string
C4_Witness ==
    /\ aborted
    /\ last.op = "operator=(std::string_view)"
    /\ Len(Input) >= TargetCap
    /\ ~empty(Target)

\* C5: constructing or assigning from a null pointer never reads the
\* pointer, never halts in either build, and leaves the instance empty.
C5_NullYieldsEmpty ==
    (last.op \in {"FixedString(const char*)", "operator=(const char*)"} /\ last.null) =>
        /\ ~aborted
        /\ ~last.deref
        /\ live[last.inst]
        /\ empty(Target)
        /\ length(Target) = 0

\* a null pointer assigned, in a debug build, to an instance that held a string
C5_Witness ==
    /\ ~NDEBUG
    /\ last.op = "operator=(const char*)"
    /\ last.null
    /\ StaleBytes(Target)
    /\ empty(Target)

\* C6: no instance equals a null pointer, an empty instance equals the
\* empty view and the literal "", and != is the negation of == each time.
C6_NullNeverEqual ==
    /\ \A i \in Inst :
          /\ ~EqCStr(Data[i], NullPtr)
          /\ NeCStr(Data[i], NullPtr)
          /\ empty(Data[i]) =>
                /\ EqView(Data[i], <<>>)
                /\ ~NeView(Data[i], <<>>)
                /\ EqCStr(Data[i], PtrTo(<<NUL>>))
                /\ ~NeCStr(Data[i], PtrTo(<<NUL>>))
    /\ (last.op = "operator==(const char*)" /\ last.null) => ~last.eq
    /\ (last.op = "operator!=(const char*)" /\ last.null) => last.eq

\* an empty instance with older bytes in its buffer, compared to a null pointer
C6_Witness ==
    /\ last.op = "operator==(const char*)"
    /\ last.null
    /\ ~last.eq
    /\ empty(Target)
    /\ StaleBytes(Target)

\* C7: two instances of any capacities are equal exactly when their
\* contents are the same bytes, whatever lies after their terminators.
C7_EqualIffSameContent ==
    /\ \A i \in Inst, j \in Inst :
          /\ EqFixed(Data[i], Data[j]) <=> (Content(Data[i]) = Content(Data[j]))
          /\ NeFixed(Data[i], Data[j]) <=> (Content(Data[i]) # Content(Data[j]))
    /\ last.op = "operator==(const FixedString<M>&)" =>
          (last.eq <=> (Content(Target) = Content(Data[last.from])))
    /\ last.op = "operator!=(const FixedString<M>&)" =>
          (last.eq <=> (Content(Target) # Content(Data[last.from])))

\* equal instances of two capacities whose buffers differ after the terminator
C7_Witness ==
    /\ last.op = "operator==(const FixedString<M>&)"
    /\ last.eq
    /\ Capacity[last.inst] # Capacity[last.from]
    /\ Content(Target) # <<>>
    /\ StaleBytes(Target)
    /\ ~StaleBytes(Data[last.from])

PlusOps ==
    {"operator+(std::string_view, const FixedString&)",
     "operator+(const FixedString&, std::string_view)",
     "operator+(const FixedString&, const char*)",
     "operator+(const char*, const FixedString&)",
     "operator+(const FixedString&, const FixedString<M>&)"}

\* left operand's content followed by right operand's content
Concatenation(rec) ==
    CASE rec.op = "operator+(std::string_view, const FixedString&)" ->
             InputOf(rec) \o Content(Data[rec.inst])
      [] rec.op = "operator+(const FixedString&, std::string_view)" ->
             Content(Data[rec.inst]) \o InputOf(rec)
      [] rec.op = "operator+(const FixedString&, const char*)" ->
             Content(Data[rec.inst]) \o InputOf(rec)
      [] rec.op = "operator+(const char*, const FixedString&)" ->
             InputOf(rec) \o Content(Data[rec.inst])
      [] rec.op = "operator+(const FixedString&, const FixedString<M>&)" ->
             Content(Data[rec.inst]) \o Content(Data[rec.from])

\* C8: whichever side the instance is on and whatever the other operand is
\* (view, pointer, owned string, instance), + returns the left content
\* followed by the right content, a null pointer counting as empty, and
\* changes neither operand.
C8_PlusConcatenates ==
    /\ [](last.op \in PlusOps => last.out = Concatenation(last))
    /\ [][last'.op \in PlusOps => Data' = Data]_vars

\* a null pointer on the left of a non-empty instance
C8_Witness ==
    /\ last.op = "operator+(const char*, const FixedString&)"
    /\ last.null
    /\ Content(Target) # <<>>
    /\ last.out = Content(Target)

\* the source went through Assign(const char*): an owned string or a
\* non-null pointer
ViaPointer(rec) ==
    /\ rec.op \in SourceOps
    /\ rec.kind = "string" \/ (rec.kind = "cstr" /\ ~rec.null)

\* C9 (as claimed): a string or a non-null pointer leaves the buffer that
\* assigning the view of all the bytes of the source leaves (all size()
\* bytes of a string).
C9_Original ==
    [][ViaPointer(last') =>
          Data'[last'.inst] =
              Assign(Data[last'.inst], Capacity[last'.inst], InputOf(last'), NDEBUG).Data]_vars

\* C9 (amended): a string or a non-null pointer leaves the buffer, and halts
\* or not, as assigning the view of the bytes that precede the first '\0' of
\* the source does (all size() bytes of a string that holds no '\0').
C9_ReducesToView ==
    [][ViaPointer(last') =>
          LET r == Assign(Data[last'.inst], Capacity[last'.inst], TextOf(last'), NDEBUG)
          IN  Data'[last'.inst] = r.Data /\ aborted' = r.halted]_vars

\* a string with a '\0' among its bytes, assigned
C9_Witness ==
    /\ last.op = "operator=(const std::string&)"
    /\ HasNul(last.bytes)
    /\ Len(TextOf(last)) >= 1
    /\ ~aborted

\* the same source assigned once more to the target of the last assignment
Reassigned ==
    CASE last.kind = "cstr" ->
             AssignCStr(Target, TargetCap, [null |-> last.null, mem |-> last.bytes], NDEBUG)
      [] last.kind = "string" ->
             AssignCStr(Target, TargetCap, PtrTo(c_str(last.bytes)), NDEBUG)
      [] last.kind = "view" ->
             Assign(Target, TargetCap, last.bytes, NDEBUG)

\* C10: assigning the same source a second time leaves all N bytes of the
\* buffer as the first assignment left them.
C10_Idempotent ==
    (AssignedFrom /\ ~aborted) =>
        /\ Reassigned.Data = Target
        /\ ~Reassigned.halted

\* a truncating assignment in a release build, about to be repeated
C10_Witness ==
    /\ NDEBUG
    /\ last.op = "operator=(std::string_view)"
    /\ TargetCap >= 2
    /\ Len(Input) >= TargetCap
    /\ length(Target) = TargetCap - 1

====
